---- MODULE Spec2Model ----
(***************************************************************************)
(* Model of ercas/here-poi-scraper (src/main.py): Rectangle.subdivide,     *)
(* the HERE browse providers, the SQLite-backed place store of             *)
(* HerePlacesScraper and the recursive HerePlacesScraper.scrape.           *)
(*                                                                         *)
(* Coordinates are exact: a coordinate is an integer number of grid units, *)
(* UnitsPerDegree units to the degree, and every rectangle the model       *)
(* subdivides has sides that the divisor divides, so that the quotients of *)
(* lines 96-97 are exact.  Binary rounding of the floats is not modelled.  *)
(***************************************************************************)
EXTENDS Integers, Sequences, FiniteSets, TLC

(***************************************************************************)
(* Bounds of the model.                                                    *)
(***************************************************************************)
\* deepest nesting of scrape frames the model follows
MaxDepth == 3

\* 3^n
RECURSIVE Pow3(_)
Pow3(n) == IF n = 0 THEN 1 ELSE 3 * Pow3(n - 1)

\* grid units per degree: a degree can be cut in three MaxDepth times
UnitsPerDegree == Pow3(MaxDepth)

(***************************************************************************)
(* Fixed-point arithmetic, 8 decimal places, inside 32-bit integers.       *)
(***************************************************************************)
FP == 10000 * 10000
FPHalf == 100 * 100

Abs(a) == IF a < 0 THEN 0 - a ELSE a

\* a * b for fixed-point a, b >= 0 (both below about 4.6)
MulFP(a, b) ==
    LET ah == a \div FPHalf
        al == a % FPHalf
        bh == b \div FPHalf
        bl == b % FPHalf
    IN  ah * bh + (ah * bl + al * bh) \div FPHalf + (al * bl) \div FP

\* term - term*x2/(k(k+1)) + term*x2^2/(k(k+1)(k+2)(k+3)) - ... (n terms).
\* Here and below, "CHOOSE r \in {e(v) : v \in {a}} : TRUE" is e(a) with a
\* computed once.
RECURSIVE SeriesSum(_, _, _, _)
SeriesSum(term, x2, k, n) ==
    IF n = 0 \/ term = 0 THEN 0
    ELSE CHOOSE r \in {term - SeriesSum(next, x2, k + 2, n - 1) :
                           next \in {MulFP(term, x2) \div (k * (k + 1))}} : TRUE

\* math.sin and math.cos on fixed-point radians in [0, pi/2]
Sin(x) == CHOOSE r \in {SeriesSum(v, MulFP(v, v), 2, 8) : v \in {x}} : TRUE
Cos(x) == CHOOSE r \in {SeriesSum(FP, MulFP(v, v), 1, 8) : v \in {x}} : TRUE

\* math.radians: pi/180 in fixed point
RadPerDeg == 1745329

\* radians (fixed point) of an angle of u >= 0 grid units
ToRad(u) ==
    (u \div UnitsPerDegree) * RadPerDeg
        + ((u % UnitsPerDegree) * RadPerDeg) \div UnitsPerDegree

(***************************************************************************)
(* haversine.haversine(point1, point2, unit): points are (lat, lng) pairs. *)
(* HaversineD is the library's intermediate                                *)
(*   d = sin(lat/2)^2 + cos(lat1) * cos(lat2) * sin(lng/2)^2               *)
(* and the distance is 2 * R * asin(sqrt(d)), which is increasing in d, so *)
(* distance > km  iff  d > sin(km / (2R))^2.                               *)
(***************************************************************************)
HaversineD(lat1, lng1, lat2, lng2) ==
    CHOOSE d \in
        {MulFP(sLat, sLat) + MulFP(MulFP(cLat1, cLat2), MulFP(sLng, sLng)) :
             sLat \in {Sin(ToRad(Abs(lat2 - lat1)) \div 2)},
             sLng \in {Sin(ToRad(Abs(lng2 - lng1)) \div 2)},
             cLat1 \in {Cos(ToRad(Abs(lat1)))},
             cLat2 \in {Cos(ToRad(Abs(lat2)))}} : TRUE

\* 10^8 / (2 * 6371.0088 km), times 100
InvEarthDiameter == 784805

\* sin(km / (2R))^2 in fixed point
HaversineOfKm(km) ==
    LET s == Sin((km * InvEarthDiameter) \div 100) IN MulFP(s, s)

(***************************************************************************)
(* Python arithmetic on integers of either sign.                           *)
(***************************************************************************)
Sign(a) == IF a < 0 THEN 0 - 1 ELSE 1

\* a / b where b divides a (true division, exact on the model's inputs),
\* and int(a / b), which truncates towards zero
TruncDiv(a, b) == Sign(a) * Sign(b) * (Abs(a) \div Abs(b))

\* a % b with the sign of the divisor
PyMod(a, b) ==
    LET m == Abs(a) % Abs(b)
    IN  IF m = 0 THEN 0
        ELSE IF Sign(a) = Sign(b) THEN Sign(b) * m
        ELSE Sign(b) * (Abs(b) - m)

(***************************************************************************)
(* Rectangle (lines 18-116).                                               *)
(***************************************************************************)
Rectangle(x0, y0, x1, y1) ==
    [min_x |-> x0, min_y |-> y0, max_x |-> x1, max_y |-> y1]

\* Rectangle.radius(unit) > max_radius.  unit "None" is the cartesian
\* distance sqrt(dx^2 + dy^2), in grid units; unit "KILOMETERS" is the
\* haversine distance of the corners, passed as (min_x, min_y), (max_x, max_y)
RadiusExceeds(rectangle, max_radius, unit) ==
    \E rect \in {rectangle} :
    IF unit = "None"
    THEN LET dx == rect.max_x - rect.min_x
             dy == rect.max_y - rect.min_y
         IN  max_radius < 0 \/ dx * dx + dy * dy > max_radius * max_radius
    ELSE HaversineD(rect.min_x, rect.min_y, rect.max_x, rect.max_y)
             > HaversineOfKm(max_radius)

\* lines 91-105 with rows and columns exchanged on lines 96-97
GridSwapped(rect, rows, columns) ==
    LET rect_width == rect.max_x - rect.min_x
        rect_height == rect.max_y - rect.min_y
        Cell(n) ==
            LET subdivision_width == TruncDiv(rect_width, rows)
                subdivision_height == TruncDiv(rect_height, columns)
                subdivision_row == TruncDiv(n, columns)
                subdivision_column == PyMod(n, columns)
            IN  Rectangle(
                    rect.min_x + subdivision_width * subdivision_column,
                    rect.min_y + subdivision_height * subdivision_row,
                    rect.min_x + subdivision_width * (subdivision_column + 1),
                    rect.min_y + subdivision_height * (subdivision_row + 1))
    IN  [k \in 1..(rows * columns) |-> Cell(k - 1)]

\* the loop of subdivide (lines 91-105): element n + 1 is iteration n
Grid(rect, rows, columns) ==
    LET rect_width == rect.max_x - rect.min_x
        rect_height == rect.max_y - rect.min_y
        Cell(n) ==
            LET subdivision_width == TruncDiv(rect_width, columns)
                subdivision_height == TruncDiv(rect_height, rows)
                subdivision_row == TruncDiv(n, columns)
                subdivision_column == PyMod(n, columns)
            IN  Rectangle(
                    rect.min_x + subdivision_width * subdivision_column,
                    rect.min_y + subdivision_height * subdivision_row,
                    rect.min_x + subdivision_width * (subdivision_column + 1),
                    rect.min_y + subdivision_height * (subdivision_row + 1))
    IN  [k \in 1..(rows * columns) |-> Cell(k - 1)]

\* concatenation of a list of lists, in order
RECURSIVE Flatten(_)
Flatten(ss) ==
    IF ss = <<>> THEN <<>>
    ELSE IF Len(ss) = 1 THEN ss[1]
    ELSE LET half == Len(ss) \div 2
         IN  Flatten(SubSeq(ss, 1, half))
                 \o Flatten(SubSeq(ss, half + 1, Len(ss)))

\* an optional argument: None is the empty tuple, a value v is <<v>>
None == <<>>
Some(v) == <<v>>

\* the truth value of max_radius on line 107: None and 0 are false
Truthy(max_radius) == max_radius # None /\ max_radius[1] # 0

\* columns after lines 88-89
ColumnsOf(rows, columns) == IF columns = None THEN rows ELSE columns[1]

\* subdivide raises IndexError at line 107: subdivisions[0] of an empty list
SubdivideRaises(rows, columns, max_radius) ==
    Truthy(max_radius) /\ rows * ColumnsOf(rows, columns) <= 0

\* subdivide without lines 107-114: the grid, whatever its radius
SubdivideOnce(rect, rows, columns, max_radius, max_radius_units) ==
    Grid(rect, rows, ColumnsOf(rows, columns))

\* Rectangle.subdivide (lines 71-116) where it returns
RECURSIVE Subdivide(_, _, _, _, _)
Subdivide(rect, rows, columns, max_radius, max_radius_units) ==
    LET subdivisions == Grid(rect, rows, ColumnsOf(rows, columns))
    IN  IF Truthy(max_radius)
           /\ RadiusExceeds(subdivisions[1], max_radius[1], max_radius_units)
        THEN Flatten([k \in 1..Len(subdivisions) |->
                 Subdivide(subdivisions[k], rows,
                           Some(ColumnsOf(rows, columns)),
                           max_radius, max_radius_units)])
        ELSE subdivisions

(***************************************************************************)
(* State.                                                                  *)
(***************************************************************************)
VARIABLES
    here,                   \* self.here: "None", "HerePlacesV1", "HerePlacesV7"
    n_requests_made,        \* the three counters of the scraper
    n_places_encountered,
    n_total_new_places,
    db,                     \* committed rows of table places, in rowid order
    txn,                    \* the table as the open transaction of self.db
                            \* sees it: the committed rows and its own writes
    batch,                  \* insert_places: the places still to be inserted
    n_inserted,             \* insert_places: its local counter
    ipc,                    \* insert_places: "idle" or "inserting"
    scraped_datetime,       \* insert_places: its timestamp argument
    calls,                  \* history: the insert_places calls that ended
    now,                    \* datetime.datetime.now(), a logical clock
    world,                  \* the places the provider knows, in its order
    stack,                  \* the frames of scrape, innermost last
    pc,                     \* scrape: "idle", "running", "done", "raised",
                            \* "stopped" when the process was interrupted
    err,                    \* the exception that left scrape, "" if none
    call,                   \* history: the arguments of the scrape call
    events,                 \* history: what scrape did, in order
    stdout,                 \* what scrape printed
    runs,                   \* history: the processes that ended before this
                            \* one, on the same database file
    sub_in,                 \* subdivide: the arguments of a call
    sub_out                 \* subdivide: what the call returned

storeVars == <<db, txn, batch, n_inserted, ipc, scraped_datetime, calls, now>>
crawlVars == <<here, n_requests_made, n_places_encountered,
               n_total_new_places, world, stack, pc, err, call, events,
               stdout, runs>>
regionVars == <<sub_in, sub_out>>
vars == <<storeVars, crawlVars, regionVars>>

(***************************************************************************)
(* The place store (lines 272-329).  A place is a record with fields id    *)
(* (None when the dict has no "id" key), x, y and v (the rest of its       *)
(* data).                                                                  *)
(***************************************************************************)
Place(id, x, y, v) == [id |-> id, x |-> x, y |-> y, v |-> v]

\* zlib.compress(json.dumps(place).encode("utf-8")) and its inverse of
\* line 328; the blob is the tuple of the values of the dict
Encode(place) == <<place.id, place.x, place.y, place.v, place.scraped>>
Decode(data) ==
    [id |-> data[1], x |-> data[2], y |-> data[3], v |-> data[4],
     scraped |-> data[5]]

\* place["scraped"] = scraped_datetime (line 303)
Stamp(place, ts) == ("scraped" :> ts) @@ place

\* the place IDs of a list of rows
RowIds(rows) == {rows[k].place_id : k \in 1..Len(rows)}

\* a table places without UNIQUE(place_id)
NoUniqueConstraint(rows, id) == FALSE

\* UNIQUE(place_id) of lines 273-279: the INSERT of id raises IntegrityError
UniqueViolation(rows, id) == \E k \in 1..Len(rows) : rows[k].place_id = id

\* lines 302-314 with INSERT OR REPLACE on line 306: the row that holds the
\* ID is deleted and the new one is added
InsertRowOrReplace(rows, place, ts) ==
    LET stamped == Stamp(place, ts)
    IN  IF place.id = None
        THEN [rows |-> rows, inserted |-> 0, raised |-> "KeyError"]
        ELSE [rows |-> Append(SelectSeq(rows,
                                  LAMBDA row : row.place_id # place.id),
                              [place_id |-> place.id,
                               data |-> Encode(stamped)]),
              inserted |-> 1, raised |-> ""]

\* one iteration of the loop of lines 302-314 on the rows the connection
\* sees; raised is "KeyError" when place has no "id"
InsertRow(rows, place, ts) ==
    LET stamped == Stamp(place, ts)
    IN  IF place.id = None
        THEN [rows |-> rows, inserted |-> 0, raised |-> "KeyError"]
        ELSE IF UniqueViolation(rows, place.id)
        THEN [rows |-> rows, inserted |-> 0, raised |-> ""]
        ELSE [rows |-> Append(rows, [place_id |-> place.id,
                                     data |-> Encode(stamped)]),
              inserted |-> 1, raised |-> ""]

\* iter_places (lines 318-329)
IterPlaces(rows) == [k \in 1..Len(rows) |-> Decode(rows[k].data)]

\* a connection that commits whatever was written, exception or not
CommitAlways(committed, seen, raised) == seen

\* leaving the block "with self.db:" (line 301): the connection commits
\* what the transaction wrote, so the table becomes what the transaction
\* saw, when the block ends normally, and rolls it back when an exception
\* leaves it
ExitTransaction(committed, seen, raised) ==
    IF raised = "" THEN seen ELSE committed

\* the loop of lines 302-314 from the rows the connection sees, n places
\* inserted so far; the list is walked front to back, one half after the
\* other, and the walk ends at the first place that raises
RECURSIVE InsertLoop(_, _, _, _)
InsertLoop(seen, list, ts, n) ==
    CHOOSE result \in
      {IF places = <<>> THEN [rows |-> rows, n |-> n, raised |-> ""]
       ELSE IF Len(places) = 1
       THEN CHOOSE one \in
              {[rows |-> r.rows, n |-> n + r.inserted, raised |-> r.raised] :
                   r \in {InsertRow(rows, places[1], ts)}} : TRUE
       ELSE CHOOSE both \in
              {IF front.raised # "" THEN front
               ELSE InsertLoop(front.rows,
                               SubSeq(places, Len(places) \div 2 + 1,
                                      Len(places)),
                               ts, front.n) :
                   front \in {InsertLoop(rows,
                                   SubSeq(places, 1, Len(places) \div 2),
                                   ts, n)}} : TRUE :
           rows \in {seen}, places \in {list}} : TRUE

\* insert_places that takes None for an empty list
InsertPlacesOrEmpty(committed, places, ts) ==
    LET r == InsertLoop(committed, IF places = None THEN <<>> ELSE places[1],
                        ts, 0)
    IN  [db |-> ExitTransaction(committed, r.rows, r.raised),
         ret |-> IF r.raised = "" THEN Some(r.n) ELSE None,
         raised |-> r.raised]

\* insert_places with n_inserted += 1 (line 312) ahead of the try of line 303:
\* every place of the list is counted
InsertPlacesCountsAll(committed, places, ts) ==
    IF places = None
    THEN [db |-> ExitTransaction(committed, committed, "TypeError"),
          ret |-> None, raised |-> "TypeError"]
    ELSE LET r == InsertLoop(committed, places[1], ts, 0)
         IN  [db |-> ExitTransaction(committed, r.rows, r.raised),
              ret |-> IF r.raised = "" THEN Some(Len(places[1])) ELSE None,
              raised |-> r.raised]

\* insert_places (lines 281-316) as one step; places is None when browse
\* returned nothing, and "for place in places" raises TypeError
InsertPlaces(committed, places, ts) ==
    IF places = None
    THEN [db |-> ExitTransaction(committed, committed, "TypeError"),
          ret |-> None, raised |-> "TypeError"]
    ELSE LET r == InsertLoop(committed, places[1], ts, 0)
         IN  [db |-> ExitTransaction(committed, r.rows, r.raised),
              ret |-> IF r.raised = "" THEN Some(r.n) ELSE None,
              raised |-> r.raised]

(***************************************************************************)
(* insert_places step by step, for what an interrupted call leaves behind. *)
(***************************************************************************)
\* bound of the store specification: the number of places passed in all
\* calls together
MaxPlaces == 3

\* the places a caller may pass: two IDs, one of them with two payloads,
\* and a place without "id"
BatchPlaces ==
    {Place(<<1>>, 0, 0, 0), Place(<<1>>, 0, 0, 1), Place(<<2>>, 0, 0, 0),
     Place(None, 0, 0, 0)}

RECURSIVE SeqsUpTo(_, _)
SeqsUpTo(S, n) ==
    IF n = 0 THEN {<<>>}
    ELSE LET shorter == SeqsUpTo(S, n - 1)
         IN  shorter \cup {Append(q, e) : q \in shorter, e \in S}

\* the lists a caller may pass: at least one place
Batches == SeqsUpTo(BatchPlaces, MaxPlaces) \ {<<>>}

NoBatch == [places |-> <<>>, i |-> 0]

\* the number of places passed in the calls of a history
RECURSIVE PlacesPassed(_)
PlacesPassed(cs) ==
    IF cs = <<>> THEN 0 ELSE Len(Head(cs).places) + PlacesPassed(Tail(cs))

CallRecord(outcome, ret) ==
    [places |-> batch.places, before |-> db, written |-> Len(txn) - Len(db),
     ret |-> ret, outcome |-> outcome]

\* insert_places(places, datetime.datetime.now()) is called: lines 297-301
InsertPlacesCall(places) ==
    /\ ipc = "idle"
    /\ PlacesPassed(calls) + Len(places) <= MaxPlaces
    /\ ipc' = "inserting"
    /\ batch' = [places |-> places, i |-> 0]
    /\ n_inserted' = 0
    /\ scraped_datetime' = Some(now)
    /\ now' = now + 1
    /\ txn' = db
    /\ UNCHANGED <<db, calls, crawlVars, regionVars>>

\* one iteration of the loop; an exception other than IntegrityError
\* leaves the with block and the call
InsertStep ==
    /\ ipc = "inserting"
    /\ batch.i < Len(batch.places)
    /\ LET r == InsertRow(txn, batch.places[batch.i + 1],
                          scraped_datetime)
       IN  IF r.raised # ""
           THEN /\ db' = ExitTransaction(db, txn, r.raised)
                /\ txn' = <<>>
                /\ ipc' = "idle"
                /\ calls' = Append(calls, CallRecord("raised", None))
                /\ batch' = NoBatch
                /\ UNCHANGED n_inserted
           ELSE /\ txn' = r.rows
                /\ n_inserted' = n_inserted + r.inserted
                /\ batch' = [batch EXCEPT !.i = @ + 1]
                /\ UNCHANGED <<db, ipc, calls>>
    /\ UNCHANGED <<scraped_datetime, now, crawlVars, regionVars>>

\* the loop has ended: the with block commits and line 316 returns
InsertReturn ==
    /\ ipc = "inserting"
    /\ batch.i = Len(batch.places)
    /\ db' = ExitTransaction(db, txn, "")
    /\ txn' = <<>>
    /\ ipc' = "idle"
    /\ calls' = Append(calls, CallRecord("returned", Some(n_inserted)))
    /\ batch' = NoBatch
    /\ UNCHANGED <<n_inserted, scraped_datetime, now, crawlVars,
                   regionVars>>

\* the process dies inside the with block: SQLite discards the transaction
\* that was never committed, and a new process opens the same file
Crash ==
    /\ ipc = "inserting"
    /\ txn' = <<>>
    /\ ipc' = "idle"
    /\ calls' = Append(calls, CallRecord("crashed", None))
    /\ batch' = NoBatch
    /\ UNCHANGED <<db, n_inserted, scraped_datetime, now, crawlVars,
                   regionVars>>

(***************************************************************************)
(* The providers (lines 119-228) and the scraper's constructor.            *)
(***************************************************************************)
\* the truth value of a credential: None and "" are false
HasValue(credential) == credential # None /\ credential[1] # ""

\* self.here after lines 260-266
HereOf(api_key, app_id, app_code) ==
    IF HasValue(app_id) /\ HasValue(app_code) THEN "HerePlacesV1"
    ELSE IF HasValue(api_key) THEN "HerePlacesV7"
    ELSE "None"

\* the default of size (line 142) and of limit (line 194)
BrowseLimit == 100

\* the provider's side: place lies in the bounding box of the request
Located(place, rect) ==
    /\ rect.min_x <= place.x /\ place.x <= rect.max_x
    /\ rect.min_y <= place.y /\ place.y <= rect.max_y

InRegion(places, rect) == SelectSeq(places, LAMBDA place : Located(place, rect))

Take(q, n) == SubSeq(q, 1, IF Len(q) < n THEN Len(q) ELSE n)

\* browse (lines 140-175, 192-228): the items of a 200 response, at most
\* limit of them, and None for any other response
Browse(places, rect, status_code) ==
    IF status_code = 200
    THEN Some(Take(InRegion(places, rect), BrowseLimit))
    ELSE None

(***************************************************************************)
(* scrape (lines 410-475).                                                 *)
(***************************************************************************)
MAX_RADIUS_KM == 240

\* list comparison a < b of Python
RECURSIVE LexLess(_, _)
LexLess(a, b) ==
    IF b = <<>> THEN FALSE
    ELSE IF a = <<>> THEN TRUE
    ELSE IF Head(a) # Head(b) THEN Head(a) < Head(b)
    ELSE LexLess(Tail(a), Tail(b))

\* line 443 without the slice
CropNothing(skip_to, n) == skip_to

\* skip_to[:len(new_id)] (line 443)
Crop(skip_to, n) == SubSeq(skip_to, 1, IF Len(skip_to) < n THEN Len(skip_to) ELSE n)

\* lines 440-445 with <= for < on line 444
SkipPart1LessEq(skip_to, id, new_id) ==
    IF skip_to = Some(id) THEN None
    ELSE IF skip_to # None
            /\ ~LexLess(new_id, Crop(skip_to[1], Len(new_id)))
         THEN None
    ELSE skip_to

\* lines 440-445 with new_id for _id on line 440
SkipPart1AtChild(skip_to, id, new_id) ==
    IF skip_to = Some(new_id) THEN None
    ELSE IF skip_to # None
            /\ LexLess(Crop(skip_to[1], Len(new_id)), new_id)
         THEN None
    ELSE skip_to

\* skip_to after "skipping functionality part 1" (lines 440-445)
SkipPart1(skip_to, id, new_id) ==
    IF skip_to = Some(id) THEN None
    ELSE IF skip_to # None
            /\ LexLess(Crop(skip_to[1], Len(new_id)), new_id)
         THEN None
    ELSE skip_to

\* scrape without the test of line 427
NeverNotConfigured(provider) == FALSE

\* the test of line 427
NotConfigured(provider) == provider = "None"

\* line 468 with the provider's limit for the threshold
OverflowsAtLimit(n) == n > BrowseLimit

\* line 468 with >= for >
OverflowsFrom90(n) == n >= 90

\* line 468 with 0 for 90
OverflowsAny(n) == n > 0

\* line 468 with a cap on the depth of the recursion
OverflowsAboveDepth2(n) == n > 90 /\ Len(stack) < 2

\* the test of line 468 on len(places)
Overflows(n) == n > 90

\* a call of scrape up to the loop: lines 430-433
Frame(rect, skip_to, id) ==
    [rect |-> rect, skip_to |-> skip_to, id |-> id, i |-> 0,
     subdivisions |-> Subdivide(rect, 3, None, Some(MAX_RADIUS_KM),
                                "KILOMETERS")]

Event(ev, id, rect, found, skip_to) ==
    [ev |-> ev, id |-> id, rect |-> rect, found |-> found,
     skip_to |-> skip_to]

\* the innermost call of scrape
Top == stack[Len(stack)]

\* line 436 without the address of the caller
NewIdOfIndex == <<Top.i>>

\* new_id of line 436
NewId == Append(Top.id, Top.i)

\* line 435 with subdivisions[0] in every iteration
SubdivisionFirst == Top.subdivisions[1]

\* the subdivision of the iteration (line 435)
Subdivision == Top.subdivisions[Top.i + 1]

\* the caller's frame once the loop moves on, with its local skip_to
Advance(skip_to) ==
    [stack EXCEPT ![Len(stack)] = [@ EXCEPT !.i = @ + 1, !.skip_to = skip_to]]

\* scrape(rect, skip_to) is called on an idle scraper
Scrape(rect, skip_to) ==
    /\ pc = "idle"
    /\ call' = [rect |-> rect, skip_to |-> skip_to]
    /\ IF NotConfigured(here)
       THEN /\ pc' = "raised"
            /\ err' = "Exception"
            /\ UNCHANGED <<stack, events>>
       ELSE /\ pc' = "running"
            /\ stack' = <<Frame(rect, skip_to, <<>>)>>
            /\ events' = Append(events, Event("enter", <<>>, rect, 0, skip_to))
            /\ UNCHANGED err
    /\ UNCHANGED <<runs, here, n_requests_made, n_places_encountered,
                   n_total_new_places, world, stdout>>
    /\ UNCHANGED <<storeVars, regionVars>>

InLoop == pc = "running" /\ Top.i < Len(Top.subdivisions)

\* one iteration that is not skipped (lines 436-469), the provider
\* answering with status_code
Request(status_code) ==
    /\ InLoop
    /\ SkipPart1(Top.skip_to, Top.id, NewId) = None
    /\ LET places == Browse(world, Subdivision, status_code)
           ins == InsertPlaces(db, places, Some(now))
       IN  /\ db' = ins.db
           /\ now' = now + 1
           /\ IF ins.raised # ""
              THEN \* line 450 raises: every frame is left
                   /\ pc' = "raised"
                   /\ err' = ins.raised
                   /\ stack' = <<>>
                   /\ events' = Append(events,
                          Event("fail", NewId, Subdivision, 0, None))
                   /\ UNCHANGED <<n_requests_made, n_places_encountered,
                                  n_total_new_places, stdout>>
              ELSE IF places = None
              THEN \* line 453 raises on len(None), after line 452
                   /\ pc' = "raised"
                   /\ err' = "TypeError"
                   /\ stack' = <<>>
                   /\ n_requests_made' = n_requests_made + 1
                   /\ events' = Append(events,
                          Event("fail", NewId, Subdivision, 0, None))
                   /\ UNCHANGED <<n_places_encountered,
                                  n_total_new_places, stdout>>
              ELSE LET n == Len(places[1])
                       n_new_places == ins.ret[1]
                   IN  /\ n_requests_made' = n_requests_made + 1
                       /\ n_places_encountered' = n_places_encountered + n
                       /\ n_total_new_places' =
                              n_total_new_places + n_new_places
                       /\ stdout' = Append(stdout,
                              <<"Subdivision ID", NewId, Subdivision, n,
                                n_new_places, n_requests_made',
                                n_places_encountered', n_total_new_places'>>)
                       /\ IF Overflows(n)
                          THEN \* line 469; the model follows MaxDepth frames
                               /\ Len(stack) < MaxDepth
                               /\ stack' = Append(Advance(None),
                                      Frame(Subdivision, None, NewId))
                               /\ events' = events \o
                                      <<Event("browse", NewId, Subdivision,
                                              n, None),
                                        Event("enter", NewId, Subdivision,
                                              0, None)>>
                          ELSE /\ stack' = Advance(None)
                               /\ events' = Append(events,
                                      Event("browse", NewId, Subdivision,
                                            n, None))
                       /\ UNCHANGED <<pc, err>>
    /\ UNCHANGED <<runs, here, world, call>>
    /\ UNCHANGED <<txn, batch, n_inserted, ipc, scraped_datetime, calls>>
    /\ UNCHANGED regionVars

\* one iteration that is skipped (lines 436-445, 472-475)
Skip ==
    /\ InLoop
    /\ LET skip_to == SkipPart1(Top.skip_to, Top.id, NewId)
           skip_to_cropped == Crop(skip_to[1], Len(NewId))
       IN  /\ skip_to # None
           /\ stdout' = Append(stdout, <<"skipped">>)
           /\ IF skip_to_cropped = NewId
              THEN \* line 475; the model follows MaxDepth frames
                   /\ Len(stack) < MaxDepth
                   /\ stack' = Append(Advance(skip_to),
                          Frame(Subdivision, skip_to, NewId))
                   /\ events' = events \o
                          <<Event("skipped", NewId, Subdivision, 0, skip_to),
                            Event("enter", NewId, Subdivision, 0, skip_to)>>
              ELSE /\ stack' = Advance(skip_to)
                   /\ events' = Append(events,
                          Event("skipped", NewId, Subdivision, 0, skip_to))
    /\ UNCHANGED <<runs, here, n_requests_made, n_places_encountered,
                   n_total_new_places, world, pc, err, call>>
    /\ UNCHANGED <<storeVars, regionVars>>

\* the loop of a frame has ended: scrape returns to its caller
Return ==
    /\ pc = "running"
    /\ Top.i = Len(Top.subdivisions)
    /\ stack' = SubSeq(stack, 1, Len(stack) - 1)
    /\ pc' = IF Len(stack) = 1 THEN "done" ELSE "running"
    /\ events' = Append(events, Event("return", Top.id, Top.rect, 0, None))
    /\ UNCHANGED <<runs, here, n_requests_made, n_places_encountered,
                   n_total_new_places, world, err, call, stdout>>
    /\ UNCHANGED <<storeVars, regionVars>>

\* scrape(rect, None, id) when nothing interrupts it and every request is
\* answered (lines 430-469): its requests in order, followed fuel frames
\* deep
RECURSIVE Uninterrupted(_, _, _)
Uninterrupted(rect, id, fuel) ==
    LET subdivisions == Subdivide(rect, 3, None, Some(MAX_RADIUS_KM),
                                  "KILOMETERS")
        Visit(i) ==
            LET new_id == Append(id, i)
                subdivision == subdivisions[i + 1]
                places == Browse(world, subdivision, 200)
            IN  <<[id |-> new_id, rect |-> subdivision]>>
                    \o (IF Overflows(Len(places[1])) /\ fuel > 1
                        THEN Uninterrupted(subdivision, new_id, fuel - 1)
                        ELSE <<>>)
    IN  Flatten([k \in 1..Len(subdivisions) |-> Visit(k - 1)])

(***************************************************************************)
(* A process that is interrupted, and the process started after it on the  *)
(* same database file.                                                     *)
(***************************************************************************)
\* the address of the last request that was answered and stored
LastBrowsed ==
    LET done == {k \in 1..Len(events) : events[k].ev = "browse"}
    IN  IF done = {} THEN None
        ELSE Some(events[CHOOSE k \in done : \A j \in done : j <= k].id)

\* the process is interrupted between two iterations of the loop of scrape
\* (lines 435-475): what insert_places committed stays in the file
Interrupt ==
    /\ pc = "running"
    /\ pc' = "stopped"
    /\ stack' = <<>>
    /\ UNCHANGED <<runs, here, n_requests_made, n_places_encountered,
                   n_total_new_places, world, err, call, events, stdout>>
    /\ UNCHANGED <<storeVars, regionVars>>

\* what is known of a process that ended
RunRecord ==
    [call |-> call, outcome |-> pc, last |-> LastBrowsed,
     counters |-> <<n_requests_made, n_places_encountered,
                    n_total_new_places>>,
     db |-> db]

\* __init__ with sqlite3.connect(":memory:") on line 272: the table is empty
RestartOnEmptyDatabase ==
    /\ pc \in {"done", "raised", "stopped"}
    /\ runs = <<>>
    /\ runs' = <<RunRecord>>
    /\ n_requests_made' = 0
    /\ n_places_encountered' = 0
    /\ n_total_new_places' = 0
    /\ stack' = <<>>
    /\ pc' = "idle"
    /\ err' = ""
    /\ call' = [rect |-> Rectangle(0, 0, 0, 0), skip_to |-> None]
    /\ events' = <<>>
    /\ stdout' = <<>>
    /\ db' = <<>>
    /\ UNCHANGED <<here, world, txn, batch, n_inserted, ipc,
                   scraped_datetime, calls, now>>
    /\ UNCHANGED regionVars

\* the process has ended and a new one constructs a scraper on the same
\* db_path with the same credentials (lines 258-279): counters at 0, and
\* CREATE TABLE IF NOT EXISTS keeps the rows of the file
Restart ==
    /\ pc \in {"done", "raised", "stopped"}
    /\ runs = <<>>
    /\ runs' = <<RunRecord>>
    /\ n_requests_made' = 0
    /\ n_places_encountered' = 0
    /\ n_total_new_places' = 0
    /\ stack' = <<>>
    /\ pc' = "idle"
    /\ err' = ""
    /\ call' = [rect |-> Rectangle(0, 0, 0, 0), skip_to |-> None]
    /\ events' = <<>>
    /\ stdout' = <<>>
    /\ UNCHANGED <<here, world>>
    /\ UNCHANGED <<storeVars, regionVars>>

(***************************************************************************)
(* subdivide as a call of its own.                                         *)
(***************************************************************************)
\* one call of subdivide: IndexError, or the list it returns
SubdivideCall ==
    /\ sub_out.raised = "pending"
    /\ sub_out' =
          IF SubdivideRaises(sub_in.rows, sub_in.columns, sub_in.max_radius)
          THEN [raised |-> "IndexError", value |-> <<>>]
          ELSE [raised |-> "",
                value |-> Subdivide(sub_in.rect, sub_in.rows, sub_in.columns,
                              sub_in.max_radius, sub_in.max_radius_units)]
    /\ UNCHANGED <<sub_in, storeVars, crawlVars>>

(***************************************************************************)
(* Initial states and inputs.                                              *)
(***************************************************************************)
U == UnitsPerDegree

\* n places at one point, with IDs <<c, 1>> .. <<c, n>>
Cluster(c, n, x, y) == [k \in 1..n |-> Place(<<c, k>>, x, y, 0)]

\* what the provider knows: a few places, one of them on a corner that four
\* subdivisions share; a subdivision of exactly 90 and one of 91 places; a
\* subdivision of more than BrowseLimit places; 95 places at one point; 95
\* places at two points that the third subdivision separates
Worlds ==
    { Cluster(1, 5, 1, 1) \o Cluster(2, 3, U, U)
          \o Cluster(3, 2, 2 * U + 1, 2 * U + 1)
          \o Cluster(4, 2, 1 - 85 * U, U),
      Cluster(1, 90, 1, 1) \o Cluster(2, 50, 2 * U + 1, 2 * U + 1)
          \o Cluster(3, 41, 3 * U - 1, 3 * U - 1),
      Cluster(1, 60, 1, 1) \o Cluster(2, 60, U - 1, U - 1)
          \o Cluster(3, 4, U, U),
      Cluster(1, 95, 1, 1),
      Cluster(1, 50, 1, 1) \o Cluster(2, 45, 4, 4) }

\* the rectangles scrape is called on: 3 by 3 degrees, 6 by 6 degrees, and
\* longitudes -90..-84 with latitudes 0..90
Roots ==
    { Rectangle(0, 0, 3 * U, 3 * U),
      Rectangle(0, 0, 6 * U, 6 * U),
      Rectangle(0 - 90 * U, 0, 0 - 84 * U, 90 * U) }

\* the skip_to arguments
SkipTos ==
    {None} \cup {Some(a) : a \in {<<>>, <<0>>, <<0, 2>>, <<8>>, <<4, 4>>,
                                  <<0, 9>>, <<3, 0>>}}

Credentials == {None, Some(""), Some("key")}

IdleStore ==
    /\ db = <<>>
    /\ txn = <<>>
    /\ batch = NoBatch
    /\ n_inserted = 0
    /\ ipc = "idle"
    /\ scraped_datetime = None
    /\ calls = <<>>
    /\ now = 0

\* the scraper after __init__ (lines 258-279)
Constructed(api_key, app_id, app_code) ==
    /\ here = HereOf(api_key, app_id, app_code)
    /\ n_requests_made = 0
    /\ n_places_encountered = 0
    /\ n_total_new_places = 0
    /\ stack = <<>>
    /\ pc = "idle"
    /\ err = ""
    /\ call = [rect |-> Rectangle(0, 0, 0, 0), skip_to |-> None]
    /\ events = <<>>
    /\ stdout = <<>>
    /\ runs = <<>>

NoSubdivide ==
    /\ sub_in = [rect |-> Rectangle(0, 0, 0, 0), rows |-> 0,
                 columns |-> None, max_radius |-> None,
                 max_radius_units |-> "None"]
    /\ sub_out = [raised |-> "", value |-> <<>>]

(***************************************************************************)
(* Spec: one scraper, constructed with any credentials, scraping.          *)
(***************************************************************************)
Init ==
    /\ \E api_key \in Credentials, app_id \in Credentials,
          app_code \in Credentials :
           Constructed(api_key, app_id, app_code)
    /\ world \in Worlds
    /\ IdleStore
    /\ NoSubdivide

Next ==
    \/ \E rect \in Roots, skip_to \in SkipTos : Scrape(rect, skip_to)
    \/ \E status_code \in {200, 500} : Request(status_code)
    \/ Skip
    \/ Return

Spec == Init /\ [][Next]_vars

(***************************************************************************)
(* SpecRerun: a scraper whose provider always answers scrapes without      *)
(* skip_to, returns or is interrupted, and a second process scrapes again  *)
(* on the same database file, from the start or from the address of the    *)
(* last request the first one completed.                                   *)
(***************************************************************************)
RerunRoots ==
    { Rectangle(0, 0, 3 * U, 3 * U),
      Rectangle(0 - 90 * U, 0, 0 - 84 * U, 90 * U) }

\* the skip_to arguments of the operator: none, or the last address the
\* process before printed for a request
ResumeChoices ==
    {None} \cup (IF runs # <<>> /\ runs[1].last # None
                     THEN {runs[1].last} ELSE {})

InitRerun ==
    /\ Constructed(Some("key"), None, None)
    /\ world \in Worlds
    /\ IdleStore
    /\ NoSubdivide

NextRerun ==
    \/ \E rect \in RerunRoots, skip_to \in ResumeChoices : Scrape(rect, skip_to)
    \/ Request(200)
    \/ Skip
    \/ Return
    \/ Interrupt
    \/ Restart

SpecRerun == InitRerun /\ [][NextRerun]_vars

(***************************************************************************)
(* SpecLive: the crawl against a provider that always answers. scrape is   *)
(* one thread that runs each statement after the one before, so a step     *)
(* that can be taken is taken: weak fairness of the next-state relation.   *)
(***************************************************************************)
NextLive ==
    \/ \E rect \in RerunRoots, skip_to \in SkipTos : Scrape(rect, skip_to)
    \/ Request(200)
    \/ Skip
    \/ Return

SpecLive == InitRerun /\ [][NextLive]_vars /\ WF_vars(NextLive)

(***************************************************************************)
(* SpecStore: insert_places called on an empty database.                   *)
(***************************************************************************)
InitStore ==
    /\ Constructed(None, None, None)
    /\ world = <<>>
    /\ IdleStore
    /\ NoSubdivide

NextStore ==
    \/ \E places \in Batches : InsertPlacesCall(places)
    \/ InsertStep
    \/ InsertReturn
    \/ Crash

SpecStore == InitStore /\ [][NextStore]_vars

(***************************************************************************)
(* SpecRegion: subdivide called once, on arguments of every kind.          *)
(***************************************************************************)
\* the call divides exactly and its recursion ends within fuel levels
RECURSIVE Exact(_, _, _, _, _, _)
Exact(rect, rows, columns, max_radius, unit, fuel) ==
    LET cols == ColumnsOf(rows, columns)
        subdivisions == Grid(rect, rows, cols)
    IN  \/ rows * cols <= 0
        \/ /\ Abs(rect.max_x - rect.min_x) % Abs(cols) = 0
           /\ Abs(rect.max_y - rect.min_y) % Abs(rows) = 0
           /\ (Truthy(max_radius)
                 /\ RadiusExceeds(subdivisions[1], max_radius[1], unit)) =>
                  /\ fuel > 0
                  /\ \A k \in 1..Len(subdivisions) :
                         Exact(subdivisions[k], rows, Some(cols), max_radius,
                               unit, fuel - 1)

SubdivideInputs ==
    {in \in [rect : {Rectangle(0, 0, 36, 36), Rectangle(0 - 36, 0 - 18, 36, 18)},
             rows : (0 - 2)..3,
             columns : {None} \cup {Some(c) : c \in (0 - 2)..3},
             max_radius : {None, Some(0), Some(20), Some(100)},
             max_radius_units : {"None", "KILOMETERS"}] :
        Exact(in.rect, in.rows, in.columns, in.max_radius,
              in.max_radius_units, MaxDepth)}

InitRegion ==
    /\ Constructed(None, None, None)
    /\ world = <<>>
    /\ IdleStore
    /\ sub_in \in SubdivideInputs
    /\ sub_out = [raised |-> "pending", value |-> <<>>]

NextRegion == SubdivideCall

SpecRegion == InitRegion /\ [][NextRegion]_vars

(***************************************************************************)
(* Properties.                                                             *)
(***************************************************************************)
EventIndex == 1..Len(events)

\* a browse request was issued at address a
Requested(a) ==
    \E k \in EventIndex : events[k].ev \in {"browse", "fail"} /\ events[k].id = a

WasSkipped(a) ==
    \E k \in EventIndex : events[k].ev = "skipped" /\ events[k].id = a

\* scrape was called for the subdivision at address a
Entered(a) == \E k \in EventIndex : events[k].ev = "enter" /\ events[k].id = a

\* the number of rows that store id
RowsOf(id) == Cardinality({j \in 1..Len(db) : db[j].place_id = id})

\* the table as the next statement of insert_places would see it
Visible == IF ipc = "inserting" THEN txn ELSE db

\* C1: when scrape without skip_to returns, against a provider that answers
\* with all places of the requested rectangle if they are at most 100 and
\* with 100 of them otherwise, every place located in the scraped rectangle
\* is stored, and its ID is stored exactly once.
C1_CompleteOnce ==
    (pc = "done" /\ call.skip_to = None) =>
        \A k \in 1..Len(world) :
            Located(world[k], call.rect) => RowsOf(world[k].id) = 1

\* a scrape that returned after a truncated answer and after answers that
\* repeated places already stored
C1_Witness ==
    /\ pc = "done"
    /\ call.skip_to = None
    /\ \E k \in EventIndex :
           /\ events[k].ev = "browse"
           /\ events[k].found = BrowseLimit
           /\ Len(InRegion(world, events[k].rect)) > BrowseLimit
    /\ n_places_encountered > n_total_new_places

\* C3: a subdivision that was requested is scraped in turn, with skip_to
\* None and its own address, right after its request, if and only if the
\* request returned more than 90 places; one that returned exactly 90 is not.
C3_DescendIffOver90 ==
    \A k \in EventIndex : events[k].ev = "browse" =>
        /\ events[k].found > 90 =>
               /\ k < Len(events)
               /\ events[k + 1] = Event("enter", events[k].id,
                                        events[k].rect, 0, None)
        /\ events[k].found <= 90 =>
               \A j \in EventIndex :
                   events[j].ev = "enter" => events[j].id # events[k].id

\* one subdivision returned exactly 90 places, another one 91
C3_Witness ==
    /\ \E k \in EventIndex : events[k].ev = "browse" /\ events[k].found = 90
    /\ \E k \in EventIndex : events[k].ev = "browse" /\ events[k].found = 91
    /\ pc = "done"

\* the subdivisions scrape makes of the node at address a below rect
RECURSIVE ChildrenAt(_, _)
ChildrenAt(rect, a) ==
    LET subdivisions == Frame(rect, None, <<>>).subdivisions
    IN  IF a = <<>> THEN subdivisions
        ELSE ChildrenAt(subdivisions[a[1] + 1], Tail(a))

\* a is the address of a node of the subdivision tree of rect
RECURSIVE IsNode(_, _)
IsNode(rect, a) ==
    \/ a = <<>>
    \/ /\ a[1] \in 0..(Len(ChildrenAt(rect, <<>>)) - 1)
       /\ IsNode(ChildrenAt(rect, <<>>)[a[1] + 1], Tail(a))

\* C4: when scrape with skip_to = A, the address of a node, returns: at every
\* level of A the children before A's are skipped, neither requested nor
\* scraped; A's own child at that level is scraped, with skip_to still A,
\* without a request; the children after it are requested; and all children
\* of A are requested.
C4_Resume ==
    (pc = "done" /\ call.skip_to # None /\ IsNode(call.rect, call.skip_to[1]))
    =>
    LET A == call.skip_to[1]
    IN  /\ \A l \in 1..Len(A) :
               LET P == SubSeq(A, 1, l - 1)
               IN  \A j \in 0..(Len(ChildrenAt(call.rect, P)) - 1) :
                       LET a == Append(P, j)
                       IN  /\ j < A[l] =>
                                  WasSkipped(a) /\ ~Requested(a) /\ ~Entered(a)
                           /\ j = A[l] =>
                                  /\ ~Requested(a)
                                  /\ \E k \in EventIndex :
                                         events[k] = Event("enter", a,
                                             ChildrenAt(call.rect, P)[j + 1],
                                             0, call.skip_to)
                           /\ j > A[l] => Requested(a) /\ ~WasSkipped(a)
        /\ \A j \in 0..(Len(ChildrenAt(call.rect, A)) - 1) :
               Requested(Append(A, j))

\* scrape returned after resuming at [0, 2]
C4_Witness ==
    /\ pc = "done"
    /\ call.skip_to = Some(<<0, 2>>)
    /\ WasSkipped(<<0, 1>>)
    /\ Requested(<<0, 2, 0>>)
    /\ Requested(<<8>>)

\* a < b in lexicographic order, a strict prefix being smaller
LexLT(a, b) ==
    \E k \in 1..Len(b) :
        /\ \A j \in 1..(k - 1) : j <= Len(a) /\ a[j] = b[j]
        /\ Len(a) = k - 1 \/ (k <= Len(a) /\ a[k] < b[k])

\* C5: during scrape with skip_to = A, every address at which browse is
\* called is lexicographically greater than A, whatever the provider
\* answers.
C5_RequestsAfterResume ==
    call.skip_to # None =>
        \A k \in EventIndex : events[k].ev \in {"browse", "fail"} =>
            LexLT(call.skip_to[1], events[k].id)

\* a resumed scrape that requested subdivisions, some of them below the
\* node it resumed at
C5_Witness ==
    /\ call.skip_to = Some(<<0, 2>>)
    /\ Requested(<<0, 2, 0>>)
    /\ Requested(<<1>>)

\* the IDs of the places of a list that have one
IdsOf(places) ==
    {places[k].id : k \in {j \in 1..Len(places) : places[j].id # None}}

\* the IDs passed to the insert_places calls that returned
EverInserted ==
    UNION {IdsOf(calls[k].places) :
               k \in {j \in 1..Len(calls) : calls[j].outcome = "returned"}}

\* C2: after any sequence of insert_places calls, batches that repeat an ID
\* included, no ID is stored twice, every call returned the number of
\* distinct IDs of its batch that were not stored before it, and iter_places
\* yields exactly one place for every ID ever inserted.
C2_InsertOnce ==
    /\ \A j, k \in 1..Len(Visible) :
           Visible[j].place_id = Visible[k].place_id => j = k
    /\ \A k \in 1..Len(calls) : calls[k].outcome = "returned" =>
           calls[k].ret =
               Some(Cardinality(IdsOf(calls[k].places)
                                    \ RowIds(calls[k].before)))
    /\ ipc = "idle" =>
           /\ Len(IterPlaces(db)) = Cardinality(EverInserted)
           /\ \A id \in EverInserted :
                  Cardinality({k \in 1..Len(db) :
                                   IterPlaces(db)[k].id = id}) = 1

\* an ID was inserted twice by one call, and again by the next call, which
\* returned 0
C2_Witness ==
    /\ ipc = "idle"
    /\ Len(calls) = 2
    /\ calls[1].places = <<Place(<<1>>, 0, 0, 0), Place(<<1>>, 0, 0, 1)>>
    /\ calls[1].ret = Some(1)
    /\ calls[2].places = <<Place(<<1>>, 0, 0, 1)>>
    /\ calls[2].ret = Some(0)

\* C8: a call of insert_places that is interrupted, by a crash or by an
\* exception other than a duplicate ID, leaves the database as it was before
\* the call; a call that returns has stored every ID of its batch; and no ID
\* is ever stored twice.
C8_AtomicBatch ==
    /\ (ipc = "idle" /\ calls # <<>>) =>
           LET last == calls[Len(calls)]
           IN  /\ last.outcome # "returned" => db = last.before
               /\ last.outcome = "returned" =>
                      RowIds(db) = RowIds(last.before) \cup IdsOf(last.places)
    /\ ipc = "inserting" =>
           \A k \in 1..Len(calls) : calls[k].outcome = "returned" =>
               IdsOf(calls[k].places) \subseteq RowIds(db)
    /\ \A id \in RowIds(Visible) :
           Cardinality({k \in 1..Len(Visible) :
                            Visible[k].place_id = id}) = 1

\* a call raised after it had written a row, and a call was cut short by a
\* crash after it had written a row
C8_Witness ==
    /\ ipc = "idle"
    /\ Len(calls) = 2
    /\ calls[1].outcome = "raised" /\ calls[1].written = 1
    /\ calls[2].outcome = "crashed" /\ calls[2].written = 1

counters == <<n_requests_made, n_places_encountered, n_total_new_places>>

\* C7: every rectangle for which scrape calls browse has a radius of at most
\* MAX_RADIUS_KM kilometres, as subdivide measures it.
C7_RadiusCap ==
    \A k \in EventIndex : events[k].ev \in {"browse", "fail"} =>
        ~RadiusExceeds(events[k].rect, MAX_RADIUS_KM, "KILOMETERS")

\* C9: when browse returns no list for a subdivision, that request is the
\* last one, scrape is left with every frame unwound, and the step changes
\* neither the database nor a counter.
C9_BrowseFailureUnwinds ==
    /\ [](\A k \in EventIndex : events[k].ev = "fail" =>
              k = Len(events) /\ pc = "raised" /\ stack = <<>>)
    /\ [][(events' # events /\ events'[Len(events')].ev = "fail") =>
              db' = db /\ counters' = counters]_vars

\* browse failed two frames deep, after requests that had succeeded
C9_Witness ==
    /\ pc = "raised"
    /\ err = "TypeError"
    /\ events[Len(events)].ev = "fail"
    /\ Len(events[Len(events)].id) >= 2
    /\ n_requests_made > 0
    /\ n_total_new_places > 0

\* C10: on a scraper constructed without usable credentials, a call of
\* scrape raises at once: no frame, no request, database and counters as
\* they were.
C10_NotConfiguredFirst ==
    [][(here = "None" /\ pc = "idle" /\ pc' # "idle") =>
           /\ pc' = "raised"
           /\ err' = "Exception"
           /\ stack' = <<>>
           /\ events' = events
           /\ db' = db
           /\ counters' = counters]_vars

\* scrape was called on a scraper without provider
C10_Witness == here = "None" /\ pc = "raised" /\ err = "Exception"

Area(rect) == (rect.max_x - rect.min_x) * (rect.max_y - rect.min_y)

RECURSIVE SumOfAreas(_)
SumOfAreas(rects) ==
    IF rects = <<>> THEN 0
    ELSE IF Len(rects) = 1 THEN Area(rects[1])
    ELSE LET half == Len(rects) \div 2
         IN  SumOfAreas(SubSeq(rects, 1, half))
                 + SumOfAreas(SubSeq(rects, half + 1, Len(rects)))

\* the rectangles lie in rect, no two of them overlap, and they leave no
\* part of rect uncovered
Partitions(rects, rect) ==
    /\ \A k \in 1..Len(rects) :
           /\ rect.min_x <= rects[k].min_x /\ rects[k].min_x < rects[k].max_x
           /\ rects[k].max_x <= rect.max_x
           /\ rect.min_y <= rects[k].min_y /\ rects[k].min_y < rects[k].max_y
           /\ rects[k].max_y <= rect.max_y
    /\ \A j, k \in 1..Len(rects) : j < k =>
           \/ rects[j].max_x <= rects[k].min_x
           \/ rects[k].max_x <= rects[j].min_x
           \/ rects[j].max_y <= rects[k].min_y
           \/ rects[k].max_y <= rects[j].min_y
    /\ SumOfAreas(rects) = Area(rect)

\* C6: for positive rows and columns, subdivide without a radius cap returns
\* rows * columns rectangles, element n being the cell of row n div columns
\* and column n mod columns, and with or without recursion under a radius
\* cap the rectangles returned partition the rectangle.
C6_SubdividePartitions ==
    (sub_out.raised = "" /\ sub_in.rows > 0
         /\ ColumnsOf(sub_in.rows, sub_in.columns) > 0) =>
    LET r == sub_in.rows
        c == ColumnsOf(sub_in.rows, sub_in.columns)
        R == sub_in.rect
        w == (R.max_x - R.min_x) \div c
        h == (R.max_y - R.min_y) \div r
    IN  /\ ~Truthy(sub_in.max_radius) =>
               /\ Len(sub_out.value) = r * c
               /\ \A n \in 0..(r * c - 1) :
                      sub_out.value[n + 1] =
                          Rectangle(R.min_x + (n % c) * w,
                                    R.min_y + (n \div c) * h,
                                    R.min_x + ((n % c) + 1) * w,
                                    R.min_y + ((n \div c) + 1) * h)
        /\ Partitions(sub_out.value, R)

\* a call with 2 rows and 3 columns whose radius cap made it recurse
C6_Witness ==
    /\ sub_out.raised = ""
    /\ sub_in.rows = 2
    /\ sub_in.columns = Some(3)
    /\ Truthy(sub_in.max_radius)
    /\ Len(sub_out.value) > 6

\* the events of requests that were answered and stored
Browsed == SelectSeq(events, LAMBDA e : e.ev = "browse")

\* the progress lines of requests, "skipped" lines left out
Reported == SelectSeq(stdout, LAMBDA line : line[1] = "Subdivision ID")

RECURSIVE SumFound(_)
SumFound(evs) ==
    IF evs = <<>> THEN 0
    ELSE IF Len(evs) = 1 THEN evs[1].found
    ELSE LET half == Len(evs) \div 2
         IN  SumFound(SubSeq(evs, 1, half))
                 + SumFound(SubSeq(evs, half + 1, Len(evs)))

\* the sum of the insert_places return values that the lines report
RECURSIVE SumInserted(_)
SumInserted(lines) ==
    IF lines = <<>> THEN 0
    ELSE IF Len(lines) = 1 THEN lines[1][5]
    ELSE LET half == Len(lines) \div 2
         IN  SumInserted(SubSeq(lines, 1, half))
                 + SumInserted(SubSeq(lines, half + 1, Len(lines)))

\* C11: in every state of a scraper on a database that was empty when it was
\* constructed, n_requests_made is the number of requests answered and
\* stored, n_places_encountered the sum of the lengths of their answers,
\* n_total_new_places the sum of the insert_places return values and the
\* number of rows in the database, and n_total_new_places <=
\* n_places_encountered; no step decreases a counter, and a step that changes
\* one is a request whose answer was stored: it adds 1 to n_requests_made,
\* and to n_total_new_places the number of rows it added.
C11_Counters ==
    /\ [](/\ n_requests_made = Len(Browsed)
          /\ n_places_encountered = SumFound(Browsed)
          /\ Len(Reported) = Len(Browsed)
          /\ n_total_new_places = SumInserted(Reported)
          /\ n_total_new_places = Len(db)
          /\ n_total_new_places <= n_places_encountered)
    /\ [][/\ n_requests_made' >= n_requests_made
          /\ n_places_encountered' >= n_places_encountered
          /\ n_total_new_places' >= n_total_new_places
          /\ counters' # counters =>
                 /\ Len(Browsed') = Len(Browsed) + 1
                 /\ n_requests_made' = n_requests_made + 1
                 /\ n_total_new_places' - n_total_new_places
                        = Len(db') - Len(db)]_vars

\* places were encountered again after they had been stored, and a later
\* request stored new ones
C11_Witness ==
    /\ n_requests_made > 9
    /\ n_total_new_places < n_places_encountered
    /\ Reported[Len(Reported)][5] > 0
    /\ \E k \in 1..Len(Reported) : Reported[k][4] > Reported[k][5]

\* the number of requests issued at address a
RequestsAt(a) ==
    Cardinality({k \in EventIndex :
                     events[k].ev \in {"browse", "fail"} /\ events[k].id = a})

\* a is a strict prefix of b
StrictPrefix(a, b) == Len(a) < Len(b) /\ SubSeq(b, 1, Len(a)) = a

\* C12 as stated: when scrape of a rectangle in which the provider has at
\* most 90 places returns, n_requests_made is 1.
C12_OneRequestPerCrawl ==
    (pc = "done" /\ call.skip_to = None
         /\ Len(InRegion(world, call.rect)) <= 90) =>
        n_requests_made = 1

\* the step issues a request
IssuesRequest ==
    /\ Len(events') > Len(events)
    /\ events'[Len(events) + 1].ev \in {"browse", "fail"}

\* C12 amended: scrape never requests the rectangle it is called on, it
\* requests the subdivisions of it; the step that requests a subdivision and
\* gets at most 90 places adds 1 to n_requests_made, prints one line, and
\* calls scrape for nothing; no later step requests that subdivision again
\* or anything below it; and when scrape without skip_to returns and no
\* request returned more than 90 places, n_requests_made is the number of
\* subdivisions of the rectangle, 9 or more.
C12_OneRequestPerLeaf ==
    /\ [](/\ ~Requested(<<>>)
          /\ (pc = "done" /\ call.skip_to = None
                 /\ \A k \in EventIndex : events[k].found <= 90) =>
                    /\ n_requests_made = Len(ChildrenAt(call.rect, <<>>))
                    /\ n_requests_made >= 9)
    /\ [][IssuesRequest =>
              LET e == events'[Len(events) + 1]
              IN  /\ \A k \in EventIndex :
                         (events[k].ev = "browse" /\ events[k].found <= 90) =>
                             /\ events[k].id # e.id
                             /\ ~StrictPrefix(events[k].id, e.id)
                  /\ (e.ev = "browse" /\ e.found <= 90) =>
                         /\ n_requests_made' = n_requests_made + 1
                         /\ Len(stdout') = Len(stdout) + 1
                         /\ stdout'[Len(stdout')][2] = e.id
                         /\ Len(events') = Len(events) + 1
                         /\ Len(stack') = Len(stack)]_vars

\* scrape of 3 by 3 degrees returned after 9 requests, none of more than 90
\* places, some of them with places
C12_Witness ==
    /\ pc = "done"
    /\ call.skip_to = None
    /\ Len(InRegion(world, call.rect)) <= 90
    /\ n_requests_made = 9
    /\ n_places_encountered > 0
    /\ \A k \in EventIndex : events[k].found <= 90

\* the requests issued at addresses below a
RequestsBelow(a) ==
    {k \in EventIndex : /\ events[k].ev \in {"browse", "fail"}
                         /\ StrictPrefix(a, events[k].id)}

\* the requests issued at the children of a
RequestsAtChildren(a) ==
    {k \in RequestsBelow(a) : Len(events[k].id) = Len(a) + 1}

\* scrape of the subdivision at address a has returned
Returned(a) == \E k \in EventIndex : events[k].ev = "return" /\ events[k].id = a

\* C13 as stated: below a subdivision whose request returned 95 places, at
\* most 9 requests are issued.
C13_AtMostNineMore ==
    \A k \in EventIndex :
        (events[k].ev = "browse" /\ events[k].found = 95) =>
            Cardinality(RequestsBelow(events[k].id)) <= 9

\* C13 amended: a subdivision whose request returned 95 places is scraped
\* exactly once; when that scrape has returned it has requested each
\* subdivision of it once, which is 9 requests when the first cell of its 3
\* by 3 grid is within MAX_RADIUS_KM; and a request further below is issued
\* only under a subdivision whose own request returned more than 90 places,
\* so the requests below are 9 plus those of the nested scrapes.
C13_OneDescent ==
    \A k \in EventIndex :
        (events[k].ev = "browse" /\ events[k].found = 95) =>
            LET a == events[k].id
                subdivisions == Subdivide(events[k].rect, 3, None,
                                          Some(MAX_RADIUS_KM), "KILOMETERS")
            IN  /\ Cardinality({j \in EventIndex :
                        events[j].ev = "enter" /\ events[j].id = a}) = 1
                /\ \A j \in RequestsAtChildren(a) :
                       /\ events[j].id[Len(a) + 1] \in 0..(Len(subdivisions) - 1)
                       /\ events[j].rect =
                              subdivisions[events[j].id[Len(a) + 1] + 1]
                       /\ RequestsAt(events[j].id) = 1
                /\ \A j \in RequestsBelow(a) \ RequestsAtChildren(a) :
                       \E i \in EventIndex :
                           /\ events[i].ev = "browse"
                           /\ events[i].found > 90
                           /\ events[i].id = SubSeq(events[j].id, 1,
                                                    Len(events[j].id) - 1)
                /\ Returned(a) =>
                       /\ Cardinality(RequestsAtChildren(a)) = Len(subdivisions)
                       /\ ~RadiusExceeds(Grid(events[k].rect, 3, 3)[1],
                                         MAX_RADIUS_KM, "KILOMETERS") =>
                              Len(subdivisions) = 9

\* the scrape of a subdivision of 95 places has returned after 18 requests:
\* one of its subdivisions held the 95 places too
C13_Witness ==
    \E k \in EventIndex :
        /\ events[k].ev = "browse"
        /\ events[k].found = 95
        /\ Returned(events[k].id)
        /\ Cardinality(RequestsAtChildren(events[k].id)) = 9
        /\ Cardinality(RequestsBelow(events[k].id)) = 18

\* C14: when scrape without skip_to has returned, and a second process on
\* the same database file scrapes the same rectangle against the same
\* provider, no step of the second scrape changes a row of the database or
\* n_total_new_places, which stays 0, and when it returns its n_requests_made
\* and n_places_encountered are those of the first scrape.
C14_IdempotentRecrawl ==
    (/\ runs # <<>>
     /\ runs[1].outcome = "done"
     /\ runs[1].call.skip_to = None
     /\ call = runs[1].call) =>
        /\ db = runs[1].db
        /\ n_total_new_places = 0
        /\ pc = "done" =>
               /\ n_requests_made = runs[1].counters[1]
               /\ n_places_encountered = runs[1].counters[2]

\* the second scrape returned; the first one had stored places and had gone
\* below a subdivision
C14_Witness ==
    /\ runs # <<>>
    /\ runs[1].outcome = "done"
    /\ call = runs[1].call
    /\ pc = "done"
    /\ runs[1].counters[3] > 90
    /\ n_requests_made > 9
    /\ n_places_encountered > runs[1].counters[3]

\* C15: a call of subdivide with rows <= 0 or columns <= 0, columns
\* defaulted to rows included, ends with an error and returns no list.
C15_InvalidArgument ==
    (/\ sub_out.raised # "pending"
     /\ \/ sub_in.rows <= 0
        \/ ColumnsOf(sub_in.rows, sub_in.columns) <= 0) =>
        /\ sub_out.raised # ""
        /\ sub_out.value = <<>>

\* the requests of the scrape, answered or not, in the order of their issue
Requests == SelectSeq(events, LAMBDA e : e.ev \in {"browse", "fail"})

\* C16: the address at which a step of scrape calls browse is greater, in
\* lexicographic order, than every address at which the scrape called browse
\* before, so the addresses requested are strictly increasing and none is
\* requested twice; and the step that issues a request, when it is answered,
\* also stores the places of the answer, updates the counters and prints the
\* progress line of that address, before the scrape of the subdivision
\* begins and before any other request.
C16_SequentialPreOrder ==
    [][IssuesRequest =>
          LET e == events'[Len(events) + 1]
          IN  /\ \A j \in EventIndex :
                     events[j].ev \in {"browse", "fail"} =>
                         LexLT(events[j].id, e.id)
              /\ \A j \in (Len(events) + 2)..Len(events') :
                     /\ j = Len(events) + 2
                     /\ events'[j] = Event("enter", e.id, e.rect, 0, None)
              /\ e.ev = "browse" =>
                     /\ n_requests_made' = n_requests_made + 1
                     /\ IdsOf(Take(InRegion(world, e.rect), BrowseLimit))
                            \subseteq RowIds(db')
                     /\ Len(stdout') = Len(stdout) + 1
                     /\ stdout'[Len(stdout')][2] = e.id
                     /\ stdout'[Len(stdout')][4] = e.found
                     /\ stdout'[Len(stdout')][6] = n_requests_made']_vars

\* scrape returned after it had gone below the first subdivision and had
\* come back to the second
C16_Witness ==
    /\ pc = "done"
    /\ Requested(<<0, 8>>)
    /\ Requested(<<1>>)
    /\ Requested(<<8>>)
    /\ Len(Requests) > 18

\* every node d levels below rect in the subdivision tree returns at most
\* 90 places; below a node that holds at most 90 places every node does,
\* because browse answers with the places inside the rectangle
RECURSIVE AllWithin(_, _, _)
AllWithin(rect, places, d) ==
    LET inside == InRegion(places, rect)
    IN  \/ Len(inside) <= 90
        \/ /\ d > 0
           /\ LET subdivisions == Subdivide(rect, 3, None, Some(MAX_RADIUS_KM),
                                            "KILOMETERS")
              IN  \A k \in 1..Len(subdivisions) :
                      AllWithin(subdivisions[k], inside, d - 1)

\* there is a depth, among those the model follows, at which every node of
\* the subdivision tree of the scraped rectangle returns at most 90 places
ShallowEnough ==
    LET subdivisions == Subdivide(call.rect, 3, None, Some(MAX_RADIUS_KM),
                                  "KILOMETERS")
    IN  \E d \in 1..MaxDepth :
            \A k \in 1..Len(subdivisions) :
                AllWithin(subdivisions[k], world, d - 1)

\* C17: against a provider that answers every request, a scrape of a
\* rectangle whose subdivision tree has a depth at which every node returns
\* at most 90 places returns.
C17_Terminates == (pc = "running" /\ ShallowEnough) ~> pc = "done"

\* scrape returned after it had gone three levels down, where two points
\* that together hold 95 places are separated
C17_Witness ==
    /\ pc = "done"
    /\ call.skip_to = None
    /\ ShallowEnough
    /\ \E k \in EventIndex :
           /\ events[k].ev = "browse"
           /\ Len(events[k].id) >= 2
           /\ events[k].found > 90

\* the points of the scraped rectangle at which the provider has more than
\* 90 places: every rectangle that contains one returns more than 90
DensePoints ==
    {p \in {[x |-> world[k].x, y |-> world[k].y] : k \in 1..Len(world)} :
        /\ Located(p, call.rect)
        /\ Cardinality({k \in 1..Len(world) :
                            world[k].x = p.x /\ world[k].y = p.y}) > 90}

\* C18: in a scrape without skip_to of a rectangle that contains a point
\* with more than 90 places, every request of a rectangle that contains the
\* point returns more than 90 places and is followed by the scrape of that
\* rectangle; after it, requests are issued only below it, for no later
\* sibling; no scrape of a rectangle that contains the point returns, and
\* the scrape as a whole never does. The code holds no test of the depth.
C18_DenseNeverReturns ==
    \A p \in DensePoints :
        (pc \in {"running", "done"} /\ call.skip_to = None) =>
            /\ pc # "done"
            /\ \A k \in EventIndex :
                   /\ (events[k].ev = "browse" /\ Located(p, events[k].rect))
                          => /\ events[k].found > 90
                             /\ k < Len(events)
                             /\ events[k + 1].ev = "enter"
                             /\ events[k + 1].rect = events[k].rect
                             /\ \A j \in (k + 1)..Len(events) :
                                    events[j].ev \in {"browse", "fail"} =>
                                        StrictPrefix(events[k].id, events[j].id)
                   /\ events[k].ev = "return" => ~Located(p, events[k].rect)

\* the scrape has gone as deep as the model follows it, one request per
\* level, each of them returning the 95 places of the point
C18_Witness ==
    /\ DensePoints # {}
    /\ pc = "running"
    /\ call.skip_to = None
    /\ Len(stack) = MaxDepth
    /\ n_requests_made = MaxDepth - 1
    /\ \A k \in EventIndex : events[k].ev \in {"browse", "enter"}
    /\ \A k \in EventIndex : events[k].ev = "browse" => events[k].found = 95

\* the step requests or skips a subdivision
VisitsChild ==
    /\ Len(events') > Len(events)
    /\ events'[Len(events) + 1].ev \in {"browse", "fail", "skipped"}

C20_ResumeCoverage ==
    (/\ runs # <<>>
     /\ runs[1].outcome = "stopped"
     /\ runs[1].last # None
     /\ runs[1].call.skip_to = None
     /\ call = [rect |-> runs[1].call.rect, skip_to |-> runs[1].last]
     /\ pc = "done"
     /\ ShallowEnough) =>
        LET A == runs[1].last[1]
            full == Uninterrupted(call.rect, <<>>, MaxDepth)
        IN  /\ \A k \in 1..Len(full) :
                   /\ LexLT(A, full[k].id) => Requested(full[k].id)
                   /\ IdsOf(Take(InRegion(world, full[k].rect), BrowseLimit))
                          \subseteq RowIds(db)
            /\ \A j \in 0..(Len(ChildrenAt(call.rect, A)) - 1) :
                   Requested(Append(A, j))

\* the first process was stopped after the request at [0, 0], two levels
\* down, and the second one resumed there, went below [0, 0] and returned
C20_Witness ==
    /\ runs # <<>>
    /\ runs[1].outcome = "stopped"
    /\ runs[1].last = Some(<<0, 0>>)
    /\ call = [rect |-> runs[1].call.rect, skip_to |-> runs[1].last]
    /\ pc = "done"
    /\ ShallowEnough
    /\ Requested(<<0, 0, 4>>)
    /\ Requested(<<8>>)
    /\ n_total_new_places > 0

\* q is p, or p with rows added after it
Extends(q, p) == Len(p) <= Len(q) /\ SubSeq(q, 1, Len(p)) = p

\* the calls of insert_places that returned and passed the ID
ReturnedWith(id) ==
    {k \in 1..Len(calls) : /\ calls[k].outcome = "returned"
                           /\ id \in IdsOf(calls[k].places)}

\* the row that the first call to store the ID wrote for it: the first
\* place of its list with that ID, stamped with the time of that call,
\* which is the number of calls before it
FirstWritten(id) ==
    LET k == CHOOSE c \in ReturnedWith(id) : \A d \in ReturnedWith(id) : c <= d
        places == calls[k].places
        n == CHOOSE i \in 1..Len(places) :
                 /\ places[i].id = id
                 /\ \A j \in 1..(i - 1) : places[j].id # id
    IN  [place_id |-> id, data |-> Encode(Stamp(places[n], Some(k - 1)))]

\* C21: no step of insert_places changes or removes a row that an earlier
\* call committed, or a row that the call itself has written: rows are only
\* added after them; so for every ID the database holds the row of the
\* first place that was stored with it, with the data and the timestamp of
\* that call, whatever later calls passed for the ID.
C21_FirstWriteWins ==
    /\ [][/\ Extends(db', db)
          /\ (ipc = "inserting" /\ ipc' = "inserting") => Extends(txn', txn)]_vars
    /\ [](ipc = "idle" =>
              \A k \in 1..Len(db) : db[k] = FirstWritten(db[k].place_id))

\* the second call passed other data for the ID that the first call had
\* stored, at a later time, and returned 0: the row is the first one
C21_Witness ==
    /\ ipc = "idle"
    /\ Len(calls) = 2
    /\ calls[1].places = <<Place(<<1>>, 0, 0, 0)>>
    /\ calls[1].outcome = "returned"
    /\ calls[2].places = <<Place(<<1>>, 0, 0, 1)>>
    /\ calls[2].ret = Some(0)
    /\ db = <<[place_id |-> <<1>>,
               data |-> Encode(Stamp(Place(<<1>>, 0, 0, 0), Some(0)))]>>
    /\ Decode(db[1].data).v = 0
    /\ Decode(db[1].data).scraped = Some(0)

====
